---- MODULE Spec2Model ----
(***************************************************************************)
(* Ekho backend: the in-memory video-generation job registry of            *)
(* VeoServiceREST (app/services/veo_service.py) with its collaborators,    *)
(* the storage service and the remote long-running-operation API.          *)
(*                                                                         *)
(* Every coroutine is cut at its awaits: one action per stretch of code    *)
(* that the event loop runs without suspension.                            *)
(***************************************************************************)
EXTENDS Integers, Sequences, FiniteSets, Bags, TLC

\* ------------------------------------------------------------------ bounds
MaxCalls == 3         \* calls of _create_job, get_job_status and list_user_jobs the callers make
MaxReqs == 2          \* requests in flight at the same time
MaxClock == 1         \* the wall clock saturates here

\* ------------------------------------------------------- program constants
MaxRefs == 3          \* face_captures[:3]
FixedDuration == 8    \* duration_seconds = 8
DoneProgress == 100   \* job["progress"] = 100
FloorProgress == 10   \* job.setdefault("progress", 10)

Users == {"u1", "u2"}

\* ------------------------------------------------ Python values, as data
\* None and a present value: <<>> and <<x>>.
None == <<>>
Some(x) == <<x>>
IsNone(o) == o = <<>>
The(o) == o[1]

\* A str is a sequence of tokens: a scheme, words, "/" and extensions.
VideoExts == {".mp4", ".mov", ".webm", ".mkv"}

StartsWithGs(v) == Len(v) > 0 /\ v[1] = "gs://"
StartsWithHttp(v) == Len(v) > 0 /\ v[1] \in {"http://", "https://"}
ContainsVideoExt(v) == \E i \in 1..Len(v) : v[i] \in VideoExts

\* JSON values of the remote API, tagged.
JBool(b) == [t |-> "bool", b |-> b]
JStr(s) == [t |-> "str", s |-> s]
JList(items) == [t |-> "list", items |-> items]
JMap(kv) == [t |-> "map", kv |-> kv]
KV(k, v) == [k |-> k, v |-> v]

\* Python truthiness of a JSON value.
Truthy(v) ==
    CASE v.t = "null" -> FALSE
      [] v.t = "bool" -> v.b
      [] v.t = "str" -> Len(v.s) > 0
      [] v.t = "list" -> Len(v.items) > 0
      [] v.t = "map" -> Len(v.kv) > 0

\* dict.get(k): the value under k, or None.
HasKey(m, k) == \E i \in 1..Len(m.kv) : m.kv[i].k = k
Get(m, k) ==
    IF HasKey(m, k)
    THEN m.kv[CHOOSE i \in 1..Len(m.kv) : m.kv[i].k = k].v
    ELSE [t |-> "null"]

\* a or b
Or(a, b) == IF Truthy(a) THEN a ELSE b

\* ---------------------------------------------------- remote API payloads
OpNameStr == <<"operations", "/", "op">>
VidGs == <<"gs://", "bucket", "/", "out", ".mp4">>
VidHttp == <<"https://", "host", "/", "out", ".mp4">>

RespVideosHttp == JMap(<<KV("generatedVideos", JList(<<JMap(<<KV("uri", JStr(VidHttp))>>)>>))>>)
RespNested == JMap(<<KV("result", JMap(<<KV("clip", JStr(VidGs))>>))>>)
RespEmpty == JMap(<<>>)
Responses == {RespVideosHttp, RespNested, RespEmpty}

RemoteError == JMap(<<KV("code", JStr(<<"13">>)), KV("message", JStr(<<"internal">>))>>)

OpNotDone == JMap(<<KV("name", JStr(OpNameStr))>>)
OpDoneErr == JMap(<<KV("name", JStr(OpNameStr)), KV("done", JBool(TRUE)),
                    KV("error", RemoteError)>>)
OpDoneOk(resp) == JMap(<<KV("name", JStr(OpNameStr)), KV("done", JBool(TRUE)),
                         KV("response", resp)>>)
DoneOps == {OpDoneErr} \cup {OpDoneOk(resp) : resp \in Responses}

\* str(e) of the exceptions the code can see; a transport timeout has no text.
ErrNoImages == JStr(<<"No avatar reference images found for video generation.">>)
ErrNoValid == JStr(<<"No valid reference images were found or uploaded.">>)
ErrNoOpName == JStr(<<"No operation name returned from Veo">>)
ErrHttpStatus == JStr(<<"Server error for url">>)
ErrTimeout == JStr(<<>>)
TransportErrors == {ErrTimeout}

\* ------------------------------------------------------- veo_service.py
\* _find_any_video_url: depth-first, dict values in insertion order.
IsVideoLocator(s) == (StartsWithGs(s) \/ StartsWithHttp(s)) /\ ContainsVideoExt(s)

RECURSIVE FindAnyVideoUrl(_), FindInValues(_, _), FindInItems(_, _)
FindAnyVideoUrl(data) ==
    CASE data.t = "map" -> FindInValues(data.kv, 1)
      [] data.t = "list" -> FindInItems(data.items, 1)
      [] OTHER -> None
FindInValues(kv, i) ==
    IF i > Len(kv) THEN None
    ELSE LET v == kv[i].v IN
         IF v.t = "str" /\ IsVideoLocator(v.s) THEN Some(v.s)
         ELSE LET found == FindAnyVideoUrl(v) IN
              IF ~IsNone(found) THEN found ELSE FindInValues(kv, i + 1)
FindInItems(items, i) ==
    IF i > Len(items) THEN None
    ELSE LET found == FindAnyVideoUrl(items[i]) IN
         IF ~IsNone(found) THEN found ELSE FindInItems(items, i + 1)

\* get_job_status, the locator extraction of a done operation:
\* [raised, uri]; raised when the response has a shape the code indexes wrongly.
ExtractVideoUri(op) ==
    LET resp == Or(Get(op, "response"), JMap(<<>>))
        raise == [raised |-> TRUE, uri |-> None]
    IN IF resp.t # "map" THEN raise
       ELSE
       LET videos == Or(Or(Get(resp, "videos"), Get(resp, "generatedVideos")),
                        IF HasKey(resp, "generatedSamples")
                        THEN Get(resp, "generatedSamples") ELSE JList(<<>>))
           fallback == LET a == FindAnyVideoUrl(resp) IN
                       IF ~IsNone(a) THEN a ELSE FindAnyVideoUrl(op)
       IN IF ~Truthy(videos) THEN [raised |-> FALSE, uri |-> fallback]
          ELSE IF videos.t # "list" THEN raise
          ELSE LET v0 == videos.items[1] IN
               IF v0.t # "map" THEN raise
               ELSE LET u == Or(Or(Get(v0, "gcsUri"), Get(v0, "uri")), Get(v0, "videoUri")) IN
                    IF ~Truthy(u) THEN [raised |-> FALSE, uri |-> fallback]
                    ELSE IF u.t # "str" THEN raise
                    ELSE [raised |-> FALSE, uri |-> Some(u.s)]

\* guess_mime
guess_mime(uri) ==
    IF Len(uri) > 0 /\ uri[Len(uri)] = ".png" THEN "image/png" ELSE "image/jpeg"

\* --------------------------------------------------- storage_service.py
\* _get_signed_url_sync: a gs://bucket/blob locator becomes an HTTPS URL.
GetSignedUrlSync(uri) ==
    IF ~StartsWithGs(uri) THEN uri
    ELSE IF ~(\E i \in 1..Len(Tail(uri)) : Tail(uri)[i] = "/") THEN uri
    ELSE <<"https://", "storage.googleapis.com", "/">> \o Tail(uri) \o <<"?X-Goog-Signature">>

\* upload_reference_images, the synchronous part: which captures become
\* upload tasks, and the object each task writes.
IsDataUrl(img) == Len(img) > 0 /\ img[1] = "data:image"
CommaAt(img) == CHOOSE i \in 1..Len(img) : img[i] = "," /\ \A j \in 1..(i - 1) : img[j] # ","
Header(img) == SubSeq(img, 1, CommaAt(img) - 1)
B64Data(img) == IF IsDataUrl(img) THEN SubSeq(img, CommaAt(img) + 1, Len(img)) ELSE img
IsPng(img) == IsDataUrl(img) /\ \E i \in 1..Len(Header(img)) : Header(img)[i] = "/png"
Decodable(b64data) == Len(b64data) > 0 /\ b64data[Len(b64data)] = "AAAA"
ObjectUri(user, jid, idx, img) ==
    <<"gs://", "bucket", "/", "reference", "/", user, "/">> \o jid
        \o <<"/", "face_", ToString(idx)>> \o <<IF IsPng(img) THEN ".png" ELSE ".jpg">>

RECURSIVE UploadTasks(_, _, _, _)
UploadTasks(user, jid, caps, i) ==
    IF i > Len(caps) THEN <<>>
    ELSE LET img == caps[i]
             rest == UploadTasks(user, jid, caps, i + 1)
         IN IF Len(img) = 0 THEN rest
            ELSE IF ~Decodable(B64Data(img)) THEN rest
            ELSE <<[uri |-> ObjectUri(user, jid, i - 1, img), st |-> "run"]>> \o rest

\* ------------------------------------------------------------- the inputs
B64Png == <<"data:image", "/png", ";base64", ",", "AAAA">>
B64Raw == <<"AAAA">>
B64Bad == <<"data:image", "/jpeg", ";base64", ",", "A">>
GsRef(k) == <<"gs://", "bucket", "/", "reference", "/", "face_", k, ".jpg">>
CaptureLists ==
    { <<>>,
      <<GsRef("0"), GsRef("1"), GsRef("2"), GsRef("3")>>,
      <<B64Png, B64Bad, B64Raw, B64Png, B64Raw>>,
      <<B64Bad>> }
\* What the callers ask for: user u1 with every list, user u2 with stored references.
CreateInputs ==
    {[user_id |-> "u1", face_captures |-> caps] : caps \in CaptureLists}
        \cup {[user_id |-> "u2", face_captures |-> <<GsRef("0")>>]}
Durations == {5, 30}

\* ------------------------------------------------------------------ state
VARIABLES
    jobs,       \* self.jobs: job_id -> job dict
    nextId,     \* how many job ids uuid4 has produced
    remote,     \* the remote API: operation number -> the operation it reports
    call,       \* the coroutines in flight (a bag): where each is suspended, and its locals
    lastRet,    \* what the call that returned last gave its caller
    clock,      \* datetime.now(timezone.utc)
    npolls,     \* how many get_job_status and list_user_jobs calls were made
    scan,       \* a response of the remote API under _find_any_video_url
    chat,       \* the adk_service call in flight: where it is suspended, and its locals
    snow_conn,  \* adk_service.snow.conn is set
    conversations,  \* documents in the Mongo collection conversations
    analytics,  \* rows in the Snowflake table conversations
    profiles    \* the Mongo collection users: user_id -> the document, if any

veo_vars == <<jobs, nextId, remote, call, lastRet, clock, npolls>>
adk_vars == <<chat, snow_conn, conversations, analytics, profiles>>
vars == <<veo_vars, scan, adk_vars>>

EmptyMap == [x \in {} |-> x]

JobId(user, n) == <<"veo_", user, "_", ToString(n)>>
UnknownId == JobId("u1", 0)

ScanIdle == [st |-> "idle"]
ChatIdle == [pc |-> "idle", calls |-> 0]

\* VeoServiceREST.__init__
InitVeo ==
    /\ jobs = EmptyMap
    /\ nextId = 0
    /\ remote = EmptyMap
    /\ call = EmptyBag
    /\ lastRet = [call |-> "none"]
    /\ clock = 0
    /\ npolls = 0

\* ADKAgentService.__init__, before any chat: Snowflake is not connected.
InitAdk ==
    /\ chat = ChatIdle
    /\ snow_conn = FALSE
    /\ conversations = 0
    /\ analytics = 0
    /\ profiles = [u \in Users |-> None]

Init == InitVeo /\ scan = ScanIdle /\ InitAdk

\* A caller may start another call.
CanCall == nextId + npolls < MaxCalls /\ BagCardinality(call) < MaxReqs

InFlight == BagToSet(call)
Suspend(c) == call (+) SetToBag({c})
Resume(c) == call (-) SetToBag({c})
Continue(c, d) == (call (-) SetToBag({c})) (+) SetToBag({d})

Put(f, k, v) == [x \in (DOMAIN f) \cup {k} |-> IF x = k THEN v ELSE f[x]]

\* datetime.now(timezone.utc): a read of the clock; time has passed at the next read.
Now == clock
Later(t) == IF t < MaxClock THEN t + 1 ELSE t

\* ------------------------------------------------ veo_service._create_job
\* The dict stored and returned when the submission succeeded.
SubmittedJob(jid, user, opname, now) ==
    [job_id |-> jid, user_id |-> user, status |-> "submitted",
     operation |-> Some(opname), progress |-> 0, video_url |-> None,
     error |-> None, created_at |-> now, updated_at |-> now]

\* Mutant of FailedJob: the except branch stores no error text.
FailedJobWithoutReason(jid, user, text, now, upd) ==
    [job_id |-> jid, user_id |-> user, status |-> "failed",
     operation |-> None, progress |-> 0, video_url |-> None,
     error |-> None, created_at |-> now, updated_at |-> upd]

\* The dict stored and returned by the except branch.
FailedJob(jid, user, text, now, upd) ==
    [job_id |-> jid, user_id |-> user, status |-> "failed",
     operation |-> None, progress |-> 0, video_url |-> None,
     error |-> Some(text), created_at |-> now, updated_at |-> upd]


\* The predictLongRunning request body.
RequestBody(prompt, gcs_uris, jid, duration_seconds) ==
    [prompt |-> prompt,
     referenceImages |-> [i \in 1..Len(gcs_uris) |->
                             [gcsUri |-> gcs_uris[i], mimeType |-> guess_mime(gcs_uris[i]),
                              referenceType |-> "asset"]],
     storageUri |-> <<"gs://", "bucket", "/", "video-outputs", "/">> \o jid \o <<"/">>,
     durationSeconds |-> duration_seconds]

\* What the caller of _create_job gets: the stored dict itself, not a copy.
CreateReturn(jid, uploads, submits) ==
    [call |-> "create", raised |-> FALSE, job_id |-> jid,
     uploads |-> uploads, submits |-> submits]

\* Mutant of CreateExcept: the exception is re-raised and nothing is stored.
CreateExceptReraises(jid, user, now, text, uploads, submits) ==
    /\ jobs' = jobs
    /\ lastRet' = [call |-> "create", raised |-> TRUE, job_id |-> jid,
                   uploads |-> uploads, submits |-> submits]

\* except Exception as e: the failed job is stored and returned.
CreateExcept(jid, user, now, text, uploads, submits) ==
    /\ jobs' = Put(jobs, jid, FailedJob(jid, user, text, now, Now))
    /\ lastRet' = CreateReturn(jid, uploads, submits)

\* The body is built and _call_predict_long_running awaits the POST.
AwaitSubmit(jid, user, now, num, gcs_uris, uploads, duration_seconds) ==
    [pc |-> "c_submit", job_id |-> jid, user_id |-> user, now |-> now,
     num |-> num, uploads |-> uploads,
     body |-> RequestBody(<<"smile">>, gcs_uris, jid, duration_seconds)]

\* Mutant of create_job: the empty list is not rejected before the submission.
create_job_unvalidated(user, face_captures, duration_seconds) ==
    LET num == nextId + 1
        job_id == JobId(user, num)
        now == Now
        is_gcs_uris == Len(face_captures) > 0 /\ StartsWithGs(face_captures[1])
        capped == SubSeq(face_captures, 1, IF Len(face_captures) < MaxRefs
                                            THEN Len(face_captures) ELSE MaxRefs)
        tasks == UploadTasks(user, job_id, capped, 1)
    IN
    /\ CanCall
    /\ nextId' = num
    /\ clock' = Later(clock)
    /\ UNCHANGED <<remote, npolls>>
    /\ IF is_gcs_uris \/ Len(tasks) = 0
       THEN /\ call' = Suspend(AwaitSubmit(job_id, user, now, num, capped, 0,
                                           duration_seconds))
            /\ UNCHANGED <<jobs, lastRet>>
       ELSE /\ call' = Suspend([pc |-> "c_upload", job_id |-> job_id, user_id |-> user,
                                now |-> now, num |-> num, tasks |-> tasks,
                                duration_seconds |-> duration_seconds])
            /\ UNCHANGED <<jobs, lastRet>>

\* Mutant of create_job: the captures are not cut to the first three.
create_job_uncapped(user, face_captures, duration_seconds) ==
    LET num == nextId + 1
        job_id == JobId(user, num)
        now == Now
        is_gcs_uris == Len(face_captures) > 0 /\ StartsWithGs(face_captures[1])
        capped == face_captures
        tasks == UploadTasks(user, job_id, capped, 1)
    IN
    /\ CanCall
    /\ nextId' = num
    /\ clock' = Later(clock)
    /\ UNCHANGED <<remote, npolls>>
    /\ IF Len(face_captures) = 0
       THEN /\ CreateExcept(job_id, user, now, ErrNoImages, 0, 0)
            /\ UNCHANGED call
       ELSE IF is_gcs_uris
       THEN /\ call' = Suspend(AwaitSubmit(job_id, user, now, num, capped, 0,
                                           duration_seconds))
            /\ UNCHANGED <<jobs, lastRet>>
       ELSE IF Len(tasks) = 0
       THEN /\ CreateExcept(job_id, user, now, ErrNoValid, 0, 0)
            /\ UNCHANGED call
       ELSE /\ call' = Suspend([pc |-> "c_upload", job_id |-> job_id, user_id |-> user,
                                now |-> now, num |-> num, tasks |-> tasks,
                                duration_seconds |-> duration_seconds])
            /\ UNCHANGED <<jobs, lastRet>>

\* _create_job up to its first await; hex8 is uuid.uuid4().hex[:8].
create_job_as(user, face_captures, duration_seconds, hex8) ==
    LET num == nextId + 1
        job_id == JobId(user, hex8)
        now == Now
        is_gcs_uris == Len(face_captures) > 0 /\ StartsWithGs(face_captures[1])
        capped == SubSeq(face_captures, 1, IF Len(face_captures) < MaxRefs
                                            THEN Len(face_captures) ELSE MaxRefs)
        tasks == UploadTasks(user, job_id, capped, 1)
    IN
    /\ CanCall
    /\ nextId' = num
    /\ clock' = Later(clock)
    /\ UNCHANGED <<remote, npolls>>
    /\ IF Len(face_captures) = 0
       THEN /\ CreateExcept(job_id, user, now, ErrNoImages, 0, 0)
            /\ UNCHANGED call
       ELSE IF is_gcs_uris
       THEN /\ call' = Suspend(AwaitSubmit(job_id, user, now, num, capped, 0,
                                           duration_seconds))
            /\ UNCHANGED <<jobs, lastRet>>
       ELSE IF Len(tasks) = 0
       THEN /\ CreateExcept(job_id, user, now, ErrNoValid, 0, 0)
            /\ UNCHANGED call
       ELSE /\ call' = Suspend([pc |-> "c_upload", job_id |-> job_id, user_id |-> user,
                                now |-> now, num |-> num, tasks |-> tasks,
                                duration_seconds |-> duration_seconds])
            /\ UNCHANGED <<jobs, lastRet>>

\* _create_job when the digits drawn were never drawn before.
create_job(user, face_captures, duration_seconds) ==
    create_job_as(user, face_captures, duration_seconds, nextId + 1)

\* /generate-avatar
create_aged_avatar(user_id, face_captures) ==
    create_job(user_id, face_captures, FixedDuration)

\* Mutant of generate_avatar_video: the duration asked for is passed on.
generate_avatar_video_unclamped(user_id, reference_images, duration) ==
    create_job(user_id, reference_images, duration)

\* /generate-video and /chat: the duration asked for is not used.
generate_avatar_video(user_id, reference_images, duration) ==
    create_job(user_id, reference_images, FixedDuration)

\* One upload thread of asyncio.gather finishes, with a URI or an exception.
upload_blob_done(c, i, ok) ==
    /\ c.pc = "c_upload"
    /\ i \in 1..Len(c.tasks)
    /\ c.tasks[i].st = "run"
    /\ call' = Continue(c, [c EXCEPT !.tasks[i].st = IF ok THEN "ok" ELSE "fail"])
    /\ UNCHANGED <<jobs, nextId, remote, lastRet, clock, npolls>>

\* Mutant of create_job_uploaded: the first upload to finish lets the call go on.
create_job_uploaded_early(c) ==
    LET n == Len(c.tasks)
        failed == \E i \in 1..n : c.tasks[i].st = "fail"
        somedone == \E i \in 1..n : c.tasks[i].st = "ok"
        uris == IF failed THEN <<>> ELSE [i \in 1..n |-> c.tasks[i].uri]
    IN
    /\ c.pc = "c_upload"
    /\ failed \/ somedone
    /\ clock' = IF Len(uris) = 0 THEN Later(clock) ELSE clock
    /\ UNCHANGED <<nextId, remote, npolls>>
    /\ IF Len(uris) = 0
       THEN /\ CreateExcept(c.job_id, c.user_id, c.now, ErrNoValid, n, 0)
            /\ call' = Resume(c)
       ELSE /\ call' = Continue(c, AwaitSubmit(c.job_id, c.user_id, c.now, c.num, uris, n,
                                               c.duration_seconds))
            /\ UNCHANGED <<jobs, lastRet>>

\* gather returns (every task has a URI) or raises (one task failed, caught
\* by upload_reference_images, which then returns []).
create_job_uploaded(c) ==
    LET n == Len(c.tasks)
        failed == \E i \in 1..n : c.tasks[i].st = "fail"
        alldone == \A i \in 1..n : c.tasks[i].st = "ok"
        uris == IF failed THEN <<>> ELSE [i \in 1..n |-> c.tasks[i].uri]
    IN
    /\ c.pc = "c_upload"
    /\ failed \/ alldone
    /\ clock' = IF Len(uris) = 0 THEN Later(clock) ELSE clock
    /\ UNCHANGED <<nextId, remote, npolls>>
    /\ IF Len(uris) = 0
       THEN /\ CreateExcept(c.job_id, c.user_id, c.now, ErrNoValid, n, 0)
            /\ call' = Resume(c)
       ELSE /\ call' = Continue(c, AwaitSubmit(c.job_id, c.user_id, c.now, c.num, uris, n,
                                               c.duration_seconds))
            /\ UNCHANGED <<jobs, lastRet>>

\* _call_predict_long_running on the reply to the POST.
SubmitReplies ==
    [exc : {TRUE}, text : TransportErrors]
        \cup [exc : {FALSE}, status_code : {200, 204, 500}, named : BOOLEAN]
call_predict_long_running(reply, num) ==
    IF reply.exc THEN [ok |-> FALSE, text |-> reply.text]
    ELSE IF reply.status_code # 200 /\ reply.status_code \notin 200..299
    THEN [ok |-> FALSE, text |-> ErrHttpStatus]
    ELSE IF ~reply.named THEN [ok |-> FALSE, text |-> ErrNoOpName]
    ELSE [ok |-> TRUE, name |-> num]

\* The POST returns: the job is stored as submitted, or the except branch runs.
create_job_submitted(c, reply) ==
    LET res == call_predict_long_running(reply, c.num) IN
    /\ c.pc = "c_submit"
    /\ call' = Resume(c)
    /\ clock' = IF res.ok THEN clock ELSE Later(clock)
    /\ UNCHANGED <<nextId, npolls>>
    /\ IF res.ok
       THEN /\ jobs' = Put(jobs, c.job_id, SubmittedJob(c.job_id, c.user_id, res.name, c.now))
            /\ remote' = Put(remote, res.name, OpNotDone)
            /\ lastRet' = CreateReturn(c.job_id, c.uploads, 1)
       ELSE /\ CreateExcept(c.job_id, c.user_id, c.now, res.text, c.uploads, 1)
            /\ UNCHANGED remote

\* ---------------------------------------------- veo_service.get_job_status
\* dict.setdefault(key, value)
SetDefault(d, key, value) ==
    IF key \in DOMAIN d THEN d
    ELSE [x \in (DOMAIN d) \cup {key} |-> IF x = key THEN value ELSE d[x]]

\* What the caller gets: the stored dict itself (return job), or an exception.
StatusReturn(jid) == [call |-> "status", raised |-> FALSE, job_id |-> jid]
StatusRaise(jid, exc) == [call |-> "status", raised |-> TRUE, job_id |-> jid, exc |-> exc]

\* routes.get_video_status: the HTTP status of the reply. The response model
\* takes error as Optional[str]; its ValidationError is a ValueError.
get_video_status(ret, registry) ==
    IF ret.raised
    THEN IF ret.exc = "ValueError" THEN 404 ELSE 500
    ELSE LET error == registry[ret.job_id].error IN
         IF ~IsNone(error) /\ The(error).t # "str" THEN 404 ELSE 200

\* Mutant of get_job_status: an unknown id gets a return, not an exception.
get_job_status_lenient(job_id) ==
    /\ CanCall
    /\ npolls' = npolls + 1
    /\ UNCHANGED <<jobs, nextId, remote, clock>>
    /\ IF job_id \notin DOMAIN jobs
       THEN /\ lastRet' = StatusReturn(job_id)
            /\ UNCHANGED call
       ELSE IF IsNone(jobs[job_id].operation)
       THEN /\ lastRet' = StatusReturn(job_id)
            /\ UNCHANGED call
       ELSE /\ call' = Suspend([pc |-> "s_fetch", job_id |-> job_id,
                                op_name |-> The(jobs[job_id].operation),
                                entry |-> jobs[job_id].status])
            /\ UNCHANGED lastRet

\* Mutant of get_job_status: a job without operation is stamped on every call.
get_job_status_restamps(job_id) ==
    /\ CanCall
    /\ npolls' = npolls + 1
    /\ UNCHANGED <<nextId, remote, clock>>
    /\ jobs' = IF job_id \in DOMAIN jobs /\ IsNone(jobs[job_id].operation)
               THEN [jobs EXCEPT ![job_id].updated_at = Now]
               ELSE jobs
    /\ IF job_id \notin DOMAIN jobs
       THEN /\ lastRet' = StatusRaise(job_id, "ValueError")
            /\ UNCHANGED call
       ELSE IF IsNone(jobs[job_id].operation)
       THEN /\ lastRet' = StatusReturn(job_id)
            /\ UNCHANGED call
       ELSE /\ call' = Suspend([pc |-> "s_fetch", job_id |-> job_id,
                                op_name |-> The(jobs[job_id].operation),
                                entry |-> jobs[job_id].status])
            /\ UNCHANGED lastRet

\* Up to the await of _fetch_predict_operation. The field entry is history:
\* the status the job had when the call began; no action reads it.
get_job_status_begun(job_id) ==
    /\ UNCHANGED <<jobs, nextId, remote, clock>>
    /\ IF job_id \notin DOMAIN jobs
       THEN /\ lastRet' = StatusRaise(job_id, "ValueError")
            /\ UNCHANGED call
       ELSE IF IsNone(jobs[job_id].operation)
       THEN /\ lastRet' = StatusReturn(job_id)
            /\ UNCHANGED call
       ELSE /\ call' = Suspend([pc |-> "s_fetch", job_id |-> job_id,
                                op_name |-> The(jobs[job_id].operation),
                                entry |-> jobs[job_id].status])
            /\ UNCHANGED lastRet

\* A call of get_job_status, counted against the bound on calls.
get_job_status(job_id) ==
    /\ CanCall
    /\ npolls' = npolls + 1
    /\ get_job_status_begun(job_id)

\* The remote API answers the poll with the operation as it is now; the
\* answer is on its way to the coroutine.
fetch_predict_operation_served(c) ==
    /\ c.pc = "s_fetch"
    /\ call' = Continue(c, [pc |-> "s_fetched", job_id |-> c.job_id,
                            op_name |-> c.op_name, entry |-> c.entry,
                            op |-> remote[c.op_name]])
    /\ UNCHANGED <<jobs, nextId, remote, lastRet, clock, npolls>>

\* Mutant of PollFailed: the failed poll also forgets the operation.
PollFailedDropsHandle(job, text, now) ==
    [job EXCEPT !.status = "error", !.error = Some(text), !.updated_at = now,
                !.operation = None]

\* except Exception as e, around _fetch_predict_operation.
PollFailed(job, text, now) ==
    [job EXCEPT !.status = "error", !.error = Some(text), !.updated_at = now]

\* Mutant of get_job_status_poll_failed: the failed poll is sent again.
get_job_status_poll_retried(c, text) ==
    /\ c.pc \in {"s_fetch", "s_fetched"}
    /\ call' = Continue(c, [pc |-> "s_fetch", job_id |-> c.job_id,
                            op_name |-> c.op_name, entry |-> "error"])
    /\ jobs' = [jobs EXCEPT ![c.job_id] = PollFailed(jobs[c.job_id], text, Now)]
    /\ clock' = Later(clock)
    /\ UNCHANGED <<nextId, remote, lastRet, npolls>>

\* The poll raised: transport error, timeout or an error status.
get_job_status_poll_failed(c, text) ==
    /\ c.pc \in {"s_fetch", "s_fetched"}
    /\ jobs' = [jobs EXCEPT ![c.job_id] = PollFailed(jobs[c.job_id], text, Now)]
    /\ call' = Resume(c)
    /\ lastRet' = StatusReturn(c.job_id)
    /\ clock' = Later(clock)
    /\ UNCHANGED <<nextId, remote, npolls>>

\* Mutant of StillRunning: the progress is assigned, not defaulted.
StillRunningAssigns(job, now) ==
    [job EXCEPT !.updated_at = now, !.status = "processing", !.progress = FloorProgress]

\* if not op.get("done")
StillRunning(job, now) ==
    SetDefault([job EXCEPT !.updated_at = now, !.status = "processing"],
               "progress", FloorProgress)

\* if "error" in op and op["error"]
DoneWithError(job, op, now) ==
    [job EXCEPT !.updated_at = now, !.status = "failed", !.error = Some(Get(op, "error")),
                !.progress = 0]

\* Mutant of DoneMarked: the progress is left as it was.
DoneMarkedKeepsProgress(job, now) ==
    [job EXCEPT !.updated_at = now, !.status = "completed"]

\* job["status"] = "completed"; job["progress"] = 100
DoneMarked(job, now) ==
    [job EXCEPT !.updated_at = now, !.status = "completed", !.progress = DoneProgress]

\* job["video_url"] = video_uri; job.setdefault("error", None)
WithVideoUrl(job, video_uri) ==
    SetDefault([job EXCEPT !.video_url = video_uri], "error", None)

\* The poll returned op: from the await to the return, or to the await of
\* get_signed_url.
get_job_status_fetched(c) ==
    LET jid == c.job_id
        op == c.op
        job == jobs[jid]
        found == ExtractVideoUri(op)
    IN
    /\ c.pc = "s_fetched"
    /\ clock' = Later(clock)
    /\ UNCHANGED <<nextId, remote, npolls>>
    /\ IF ~Truthy(Get(op, "done"))
       THEN /\ jobs' = [jobs EXCEPT ![jid] = StillRunning(job, Now)]
            /\ call' = Resume(c)
            /\ lastRet' = StatusReturn(jid)
       ELSE IF HasKey(op, "error") /\ Truthy(Get(op, "error"))
       THEN /\ jobs' = [jobs EXCEPT ![jid] = DoneWithError(job, op, Now)]
            /\ call' = Resume(c)
            /\ lastRet' = StatusReturn(jid)
       ELSE IF found.raised
       THEN /\ jobs' = [jobs EXCEPT ![jid] = DoneMarked(job, Now)]
            /\ call' = Resume(c)
            /\ lastRet' = StatusRaise(jid, "AttributeError")
       ELSE IF ~IsNone(found.uri) /\ StartsWithGs(The(found.uri))
       THEN /\ jobs' = [jobs EXCEPT ![jid] = DoneMarked(job, Now)]
            /\ call' = Continue(c, [pc |-> "s_sign", job_id |-> jid, op_name |-> c.op_name,
                                    entry |-> c.entry, video_uri |-> The(found.uri)])
            /\ UNCHANGED lastRet
       ELSE /\ jobs' = [jobs EXCEPT ![jid] = WithVideoUrl(DoneMarked(job, Now), found.uri)]
            /\ call' = Resume(c)
            /\ lastRet' = StatusReturn(jid)

\* get_signed_url returns the signed URL, or raises out of get_job_status.
get_job_status_signed(c, ok) ==
    /\ c.pc = "s_sign"
    /\ call' = Resume(c)
    /\ UNCHANGED <<nextId, remote, clock, npolls>>
    /\ IF ok
       THEN /\ jobs' = [jobs EXCEPT ![c.job_id] =
                          WithVideoUrl(jobs[c.job_id], Some(GetSignedUrlSync(c.video_uri)))]
            /\ lastRet' = StatusReturn(c.job_id)
       ELSE /\ lastRet' = StatusRaise(c.job_id, "SigningError")
            /\ UNCHANGED jobs

\* ---------------------------------------------- veo_service.list_user_jobs
\* Mutant of ListUserJobs: every stored job is listed.
ListUserJobsAll(registry, user_id) == DOMAIN registry

\* [j for j in self.jobs.values() if j.get("user_id") == user_id]: the jobs
\* listed, each the stored dict itself, named here by its key.
ListUserJobs(registry, user_id) ==
    {jid \in DOMAIN registry : registry[jid].user_id = user_id}

list_user_jobs(user_id) ==
    /\ CanCall
    /\ npolls' = npolls + 1
    /\ lastRet' = [call |-> "list", raised |-> FALSE, user_id |-> user_id,
                   job_ids |-> ListUserJobs(jobs, user_id)]
    /\ UNCHANGED <<jobs, nextId, remote, call, clock>>

\* ------------------------------------------------------- the remote API
\* The operation finishes, with an error or with one of the response shapes.
remote_operation_done(n, op) ==
    /\ n \in DOMAIN remote
    /\ remote[n] = OpNotDone
    /\ remote' = [remote EXCEPT ![n] = op]
    /\ UNCHANGED <<jobs, nextId, call, lastRet, clock, npolls>>

\* ------------------------------------------------------ the specification
PollErrors == TransportErrors \cup {ErrHttpStatus}

Next ==
    \/ /\ \E in \in CreateInputs : create_aged_avatar(in.user_id, in.face_captures)
       /\ UNCHANGED <<scan, adk_vars>>
    \/ /\ \E in \in CreateInputs, d \in Durations :
              generate_avatar_video(in.user_id, in.face_captures, d)
       /\ UNCHANGED <<scan, adk_vars>>
    \/ /\ \E c \in InFlight, i \in 1..MaxRefs, ok \in BOOLEAN : upload_blob_done(c, i, ok)
       /\ UNCHANGED <<scan, adk_vars>>
    \/ /\ \E c \in InFlight : create_job_uploaded(c)
       /\ UNCHANGED <<scan, adk_vars>>
    \/ /\ \E c \in InFlight, reply \in SubmitReplies : create_job_submitted(c, reply)
       /\ UNCHANGED <<scan, adk_vars>>
    \/ /\ \E jid \in (DOMAIN jobs) \cup {UnknownId} : get_job_status(jid)
       /\ UNCHANGED <<scan, adk_vars>>
    \/ /\ \E c \in InFlight : fetch_predict_operation_served(c)
       /\ UNCHANGED <<scan, adk_vars>>
    \/ /\ \E c \in InFlight, text \in PollErrors : get_job_status_poll_failed(c, text)
       /\ UNCHANGED <<scan, adk_vars>>
    \/ /\ \E c \in InFlight : get_job_status_fetched(c)
       /\ UNCHANGED <<scan, adk_vars>>
    \/ /\ \E c \in InFlight, ok \in BOOLEAN : get_job_status_signed(c, ok)
       /\ UNCHANGED <<scan, adk_vars>>
    \/ /\ \E n \in DOMAIN remote, op \in DoneOps : remote_operation_done(n, op)
       /\ UNCHANGED <<scan, adk_vars>>
    \/ /\ \E user_id \in Users : list_user_jobs(user_id)
       /\ UNCHANGED <<scan, adk_vars>>

Spec == Init /\ [][Next]_vars

\* ------------------------------------------------- the callers of the service
\* return job: what _create_job and get_job_status hand out is the dict the
\* registry holds. A caller that assigns to a key of it writes that dict.
CallerValues == {50}
caller_mutates_returned_job(progress) ==
    /\ lastRet.call \in {"create", "status"}
    /\ ~lastRet.raised
    /\ lastRet.job_id \in DOMAIN jobs
    /\ jobs' = [jobs EXCEPT ![lastRet.job_id].progress = progress]
    /\ UNCHANGED <<nextId, remote, call, lastRet, clock, npolls>>
    /\ UNCHANGED <<scan, adk_vars>>

NextCaller ==
    \/ Next
    \/ \E progress \in CallerValues : caller_mutates_returned_job(progress)

SpecCaller == Init /\ [][NextCaller]_vars

\* ------------------------------------------------------- uuid4().hex[:8]
\* The eight hex digits are random: a draw can repeat an earlier one.

NextIds ==
    \/ Next
    \/ /\ \E in \in CreateInputs, hex8 \in 1..nextId :
              create_job_as(in.user_id, in.face_captures, FixedDuration, hex8)
       /\ UNCHANGED <<scan, adk_vars>>

SpecIds == Init /\ [][NextIds]_vars

\* ------------------------------------------ a caller that keeps polling
\* The caller asks for the status of a submitted job again, one call at a
\* time, until the job is completed or failed.
poll_job(jid) ==
    /\ jid \in DOMAIN jobs
    /\ ~IsNone(jobs[jid].operation)
    /\ jobs[jid].status \notin {"completed", "failed"}
    /\ \A c \in InFlight : c.pc \in {"s_fetch", "s_fetched", "s_sign"} => c.job_id # jid
    /\ get_job_status_begun(jid)
    /\ UNCHANGED <<npolls, scan, adk_vars>>

MaxLiveJobs == 1
LiveJobs == {JobId("u2", n) : n \in 1..MaxLiveJobs}
LiveServed(jid) ==
    /\ \E c \in InFlight : c.job_id = jid /\ fetch_predict_operation_served(c)
    /\ UNCHANGED <<scan, adk_vars>>
LiveFetched(jid) ==
    /\ \E c \in InFlight : c.job_id = jid /\ get_job_status_fetched(c)
    /\ UNCHANGED <<scan, adk_vars>>
LiveRemoteDone ==
    /\ \E n \in DOMAIN remote, op \in DoneOps : remote_operation_done(n, op)
    /\ UNCHANGED <<scan, adk_vars>>

NextLive ==
    \/ /\ nextId < MaxLiveJobs
       /\ create_aged_avatar("u2", <<GsRef("0")>>)
       /\ UNCHANGED <<scan, adk_vars>>
    \/ /\ \E c \in InFlight, reply \in SubmitReplies : create_job_submitted(c, reply)
       /\ UNCHANGED <<scan, adk_vars>>
    \/ \E jid \in LiveJobs : poll_job(jid)
    \/ \E jid \in LiveJobs : LiveServed(jid)
    \/ /\ \E c \in InFlight, text \in PollErrors : get_job_status_poll_failed(c, text)
       /\ UNCHANGED <<scan, adk_vars>>
    \/ \E jid \in LiveJobs : LiveFetched(jid)
    \/ /\ \E c \in InFlight, ok \in BOOLEAN : get_job_status_signed(c, ok)
       /\ UNCHANGED <<scan, adk_vars>>
    \/ LiveRemoteDone

\* The remote operation finishes at some time, the caller keeps polling, and
\* of the polls sent again and again some are answered and handled.
SpecLive ==
    /\ Init /\ [][NextLive]_vars
    /\ WF_vars(LiveRemoteDone)
    /\ \A jid \in LiveJobs :
          /\ WF_vars(poll_job(jid))
          /\ SF_vars(LiveServed(jid))
          /\ SF_vars(LiveFetched(jid))

\* ------------------------------------------------ mixed reference lists
\* Lists that hold raw image data and gs:// references side by side.
MixedLists ==
    { <<GsRef("0"), B64Raw, B64Png>>,
      <<B64Raw, GsRef("1"), B64Png>> }

NextMixed ==
    \/ Next
    \/ /\ \E caps \in MixedLists : generate_avatar_video("u1", caps, FixedDuration)
       /\ UNCHANGED <<scan, adk_vars>>

SpecMixed == Init /\ [][NextMixed]_vars

\* ------------------------------------- the locator extraction, on its own
\* Strings a response can hold: locators with and without a scheme, with and
\* without a media extension, and one whose extension is not at its end.
ScanStrings ==
    {VidGs, VidHttp,
     <<"gs://", "bucket", "/", "out">>,
     <<"out", ".mp4">>,
     <<"https://", "host", "/", "clips", ".mp4", "/", "readme", ".txt">>}

\* Responses without any of the well-known video fields, nested up to
\* MaxDepth levels below the key "result".
MaxDepth == 2
ScanLeaves == {JStr(str) : str \in ScanStrings}
Wrapped(values) ==
    {JList(<<v>>) : v \in values} \cup {JMap(<<KV("clip", v)>>) : v \in values}
ScanLevel1 ==
    Wrapped(ScanLeaves)
        \cup {JMap(<<KV("a", x), KV("b", y)>>) : x \in ScanLeaves, y \in ScanLeaves}
RECURSIVE ScanLevels(_)
ScanLevels(depth) ==
    IF depth <= 1 THEN ScanLeaves \cup ScanLevel1
    ELSE ScanLevels(depth - 1) \cup Wrapped(ScanLevels(depth - 1) \ ScanLeaves)
ScanInputs == {JMap(<<KV("result", v)>>) : v \in ScanLevels(MaxDepth)}

InitScan == InitVeo /\ InitAdk /\ scan \in {[st |-> "in", data |-> r] : r \in ScanInputs}

\* self._find_any_video_url(resp)
find_any_video_url ==
    /\ scan.st = "in"
    /\ scan' = [st |-> "scanned", data |-> scan.data, found |-> FindAnyVideoUrl(scan.data)]
    /\ UNCHANGED <<veo_vars, adk_vars>>

\* get_job_status on the done operation that carries the response: the
\* locator it extracts, and the URL it stores when the signing succeeds.
locate_video ==
    LET got == ExtractVideoUri(OpDoneOk(scan.data)) IN
    /\ scan.st = "scanned"
    /\ scan' = [st |-> "located", data |-> scan.data, found |-> scan.found,
                raised |-> got.raised, uri |-> got.uri,
                video_url |-> IF ~IsNone(got.uri) /\ StartsWithGs(The(got.uri))
                              THEN Some(GetSignedUrlSync(The(got.uri)))
                              ELSE got.uri]
    /\ UNCHANGED <<veo_vars, adk_vars>>

NextScan == find_any_video_url \/ locate_video

SpecScan == InitScan /\ [][NextScan]_vars

\* ------------------------------------------------------- adk_service.py
\* A message is a sequence of words; str.lower() and the re.I flag act on
\* each word, and `k in msg` and the \\b...\\b patterns match runs of words.
lower(word) ==
    CASE word = "I" -> "i"
      [] word = "Want" -> "want"
      [] word = "To" -> "to"
      [] word = "DIE" -> "die"
      [] word = "Should" -> "should"
      [] word = "Feel" -> "feel"
      [] OTHER -> word
Lowered(text) == [i \in 1..Len(text) |-> lower(text[i])]

\* k in msg
In(k, msg) ==
    \E i \in 0..(Len(msg) - Len(k)) : \A j \in 1..Len(k) : msg[i + j] = k[j]

CRISIS_KEYWORDS ==
    {<<"suicide">>, <<"kill", "myself">>, <<"self-harm">>, <<"hurt", "myself">>,
     <<"end", "it", "all">>, <<"can't", "go", "on">>, <<"want", "to", "die">>}

\* Mutant of safety_agent: the message is scanned as typed.
safety_agent_as_typed(message) ==
    LET crisis == \E k \in CRISIS_KEYWORDS : In(k, message) IN
    [crisis |-> crisis, note |-> IF crisis THEN "Crisis language detected." ELSE "clear"]

safety_agent(message) ==
    LET msg == Lowered(message)
        crisis == \E k \in CRISIS_KEYWORDS : In(k, msg)
    IN [crisis |-> crisis, note |-> IF crisis THEN "Crisis language detected." ELSE "clear"]

\* _MODE_RULES, in the order of the dict; each pattern as the runs of words it matches.
MODE_RULES ==
    << [mode |-> "therapist",
        matches |-> {<<"anxious">>, <<"anxiety">>, <<"panic">>, <<"overwhelmed">>,
                     <<"depressed">>, <<"lonely">>, <<"burn">>, <<"burnout">>, <<"burned">>,
                     <<"feel">>, <<"feeling">>, <<"emotion">>, <<"cope">>, <<"struggle">>,
                     <<"help", "me">>, <<"talk">>}],
       [mode |-> "decision",
        matches |-> {<<"decide">>, <<"decision">>, <<"choose">>, <<"option">>,
                     <<"pros/cons">>, <<"pro/con">>, <<"trade-off">>, <<"trade", "off">>,
                     <<"tradeoff">>, <<"should", "i">>}],
       [mode |-> "brainstorm",
        matches |-> {<<"idea">>, <<"ideas">>, <<"brainstorm">>, <<"creativ">>,
                     <<"how", "might", "we">>, <<"what", "if">>}] >>

RECURSIVE FirstRule(_, _)
FirstRule(text, i) ==
    IF i > Len(MODE_RULES) THEN "casual"
    ELSE IF \E m \in MODE_RULES[i].matches : In(m, text) THEN MODE_RULES[i].mode
    ELSE FirstRule(text, i + 1)
detect_mode(message) == FirstRule(Lowered(message), 1)

POSITIVE == {"happy", "relieved", "proud", "excited", "optimistic", "grateful"}
NEGATIVE == {"sad", "anxious", "stressed", "worried", "angry", "upset", "tired",
             "burned", "burnout"}
FindAll(words, text) == Cardinality({i \in 1..Len(text) : lower(text[i]) \in words})

tag_emotion(text) ==
    IF Len(text) = 0 THEN "neutral"
    ELSE IF FindAll(NEGATIVE, text) > 0 THEN "anxious"
    ELSE IF FindAll(POSITIVE, text) > 0 THEN "positive"
    ELSE "neutral"

\* The float (pos - neg) / max(1, pos + neg), as numerator and denominator.
quick_sentiment_score(text) ==
    LET pos == FindAll(POSITIVE, text)
        neg == FindAll(NEGATIVE, text)
    IN IF Len(text) = 0 \/ (pos = 0 /\ neg = 0) THEN [num |-> 0, den |-> 1]
       ELSE [num |-> pos - neg, den |-> pos + neg]

\* Requests to /chat carry a message of at least one character
\* (schemas.py ChatRequest); the service methods take any message.
ChatMessages ==
    {<<"hello">>, <<"I", "Want", "To", "DIE">>, <<"Should", "I", "live", "or", "die">>,
     <<"I", "Feel", "anxious">>}
MaxChats == 2

\* A users document: voice_id and avatar_reference_urls as .get() reads them
\* (a missing key reads as None, and as [] with the default).
ProfileDocs ==
    {[voice_id |-> <<"voice1">>, avatar_reference_urls |-> <<"gs://bucket/u/ref.png">>],
     [voice_id |-> <<>>, avatar_reference_urls |-> <<>>]}
Reversed(rows) == [i \in 1..Len(rows) |-> rows[Len(rows) + 1 - i]]

\* The four awaitables handed to asyncio.gather, in argument order.
TaskNames == <<"mem", "trends", "safety", "profile">>
\* st is pending (created), io (suspended at its await), done or raised.
Task(st, how, res) == [st |-> st, how |-> how, res |-> res]

CanEnter == chat.pc \in {"idle", "done"} /\ chat.calls < MaxChats
Gathering(via, user_id, message) ==
    [pc |-> "gather", calls |-> chat.calls + 1, via |-> via, user_id |-> user_id,
     message |-> message, tasks |-> [i \in {"mem", "trends", "safety", "profile"} |->
                 Task("pending", "", <<>>)]]

\* orchestrate up to `await asyncio.gather(...)`: the four tasks are created.
orchestrate(user_id, message) ==
    /\ CanEnter
    /\ chat' = Gathering("orchestrate", user_id, message)
    /\ UNCHANGED <<snow_conn, conversations, analytics, profiles>>

\* POST /chat up to the same await, inside orchestrate.
chat_route(user_id, message) ==
    /\ CanEnter
    /\ chat' = Gathering("chat", user_id, message)
    /\ UNCHANGED <<snow_conn, conversations, analytics, profiles>>

\* The event loop runs the tasks' first stretches in the order of creation.
Runs(i) ==
    /\ chat.pc = "gather"
    /\ chat.tasks[TaskNames[i]].st = "pending"
    /\ \A j \in 1..(i - 1) : chat.tasks[TaskNames[j]].st # "pending"
SetTask(name, task) == chat' = [chat EXCEPT !.tasks[name] = task]

memory_agent_started ==
    /\ Runs(1)
    /\ SetTask("mem", Task("io", "", <<>>))
    /\ UNCHANGED <<snow_conn, conversations, analytics, profiles>>

pattern_agent_started ==
    /\ Runs(2)
    /\ SetTask("trends", IF ~snow_conn THEN Task("done", "skipped", <<>>) ELSE Task("io", "", <<>>))
    /\ UNCHANGED <<snow_conn, conversations, analytics, profiles>>

safety_agent_ran ==
    /\ Runs(3)
    /\ SetTask("safety", Task("done", "ok", safety_agent(chat.message)))
    /\ UNCHANGED <<snow_conn, conversations, analytics, profiles>>

get_user_profile_started ==
    /\ Runs(4)
    /\ SetTask("profile", Task("io", "", <<>>))
    /\ UNCHANGED <<snow_conn, conversations, analytics, profiles>>

\* A reply is handled after the first stretches, which were queued before it.
Waiting(name) ==
    /\ chat.pc = "gather"
    /\ \A i \in 1..Len(TaskNames) : chat.tasks[TaskNames[i]].st # "pending"
    /\ chat.tasks[name].st = "io"
Replies == {"rows", "empty", "fail"}

\* get_conversation_history after cursor.to_list, then memory_agent's `or []`.
get_conversation_history_replied(reply) ==
    /\ Waiting("mem")
    /\ SetTask("mem", Task("done", reply, IF reply = "rows" THEN Reversed(<<"turn2", "turn1">>) ELSE <<>>))
    /\ UNCHANGED <<snow_conn, conversations, analytics, profiles>>

\* analyze_emotional_trends after the query thread, then pattern_agent's `or []`.
analyze_emotional_trends_replied(reply) ==
    /\ Waiting("trends")
    /\ SetTask("trends", Task("done", reply, IF reply = "rows" THEN <<"day1">> ELSE <<>>))
    /\ snow_conn' = IF reply = "fail" THEN FALSE ELSE snow_conn
    /\ UNCHANGED <<conversations, analytics, profiles>>

\* Mutant of get_user_profile_replied: a failed find_one is not caught.
get_user_profile_reraises(ok) ==
    LET doc == profiles[chat.user_id] IN
    /\ Waiting("profile")
    /\ SetTask("profile", IF ~ok THEN Task("raised", "fail", <<>>)
                          ELSE Task("done", IF IsNone(doc) THEN "empty" ELSE "rows", doc))
    /\ UNCHANGED <<snow_conn, conversations, analytics, profiles>>

\* get_user_profile after users_collection.find_one: the user's document,
\* None when there is none, and None when find_one raised.
get_user_profile_replied(ok) ==
    LET doc == profiles[chat.user_id] IN
    /\ Waiting("profile")
    /\ SetTask("profile", IF ~ok THEN Task("done", "fail", <<>>)
                          ELSE Task("done", IF IsNone(doc) THEN "empty" ELSE "rows", doc))
    /\ UNCHANGED <<snow_conn, conversations, analytics, profiles>>

\* gather hands back the four results once every task is done, and the
\* first exception as soon as a task raises.
GatherRaised(tasks) == \E i \in 1..Len(TaskNames) : tasks[TaskNames[i]].st = "raised"

\* Mutant of GatherReturns: the gather is over once the memory task is.
GatherReturnsAfterMemory(tasks) == tasks.mem.st = "done" \/ GatherRaised(tasks)

GatherReturns(tasks) ==
    \/ \A i \in 1..Len(TaskNames) : tasks[TaskNames[i]].st = "done"
    \/ GatherRaised(tasks)

\* orchestrate after the gather (adk_service.py:116-127).
Context(tasks, message) ==
    LET profile == tasks.profile.res
        voice_id == IF profile # <<>> THEN profile[1].voice_id ELSE <<>>
        avatar_refs == IF profile # <<>> THEN profile[1].avatar_reference_urls ELSE <<>>
    IN [memories |-> tasks.mem.res,
        trends |-> tasks.trends.res,
        safety |-> tasks.safety.res,
        suggested_mode |-> detect_mode(message),
        voice_id |-> voice_id,
        avatar_reference_urls |-> avatar_refs]

Orchestrated(tasks, message) ==
    IF GatherRaised(tasks) THEN [raised |-> TRUE, ctx |-> <<>>]
    ELSE [raised |-> FALSE, ctx |-> <<Context(tasks, message)>>]

orchestrate_returned ==
    /\ chat.pc = "gather" /\ chat.via = "orchestrate"
    /\ GatherReturns(chat.tasks)
    /\ chat' = [pc |-> "done", calls |-> chat.calls, via |-> "orchestrate",
                user_id |-> chat.user_id, message |-> chat.message, tasks |-> chat.tasks,
                orchestrated |-> Orchestrated(chat.tasks, chat.message)]
    /\ UNCHANGED <<snow_conn, conversations, analytics, profiles>>

\* GeminiService.generate: a plain method that returns a str on every path.
generate(user_message, user_name, outcome) ==
    CASE outcome = "stub" -> <<"(stub)", "Future", user_name>> \o user_message
      [] outcome = "text" -> <<"tell", "me", "more">>
      [] outcome = "blank" -> <<"(no", "response)">>
      [] OTHER -> <<"I'm", "here.">>

\* POST /chat from the return of orchestrate to the response.  Line 237 awaits
\* the str that generate returned: the await raises TypeError, the handler's
\* `except Exception` turns it into HTTP 500, and lines 240-298 never run.
chat_orchestrated(outcome) ==
    /\ chat.pc = "gather" /\ chat.via = "chat"
    /\ GatherReturns(chat.tasks)
    /\ LET orch == Orchestrated(chat.tasks, chat.message)
           generated == IF orch.raised THEN <<>>
                        ELSE <<generate(chat.message, chat.user_id, outcome)>>
       IN chat' = [pc |-> "done", calls |-> chat.calls, via |-> "chat",
                   user_id |-> chat.user_id, message |-> chat.message,
                   tasks |-> chat.tasks, orchestrated |-> orch,
                   generated |-> generated,
                   status_code |-> 500,
                   detail |-> IF orch.raised THEN "agent error" ELSE "TypeError",
                   text |-> <<>>]
    /\ UNCHANGED <<snow_conn, conversations, analytics, profiles>>

\* log_after_chat up to the await of the insert in save_conversation.
LogMeta(user_message, ai_response, mode) ==
    [emotional_tag |-> tag_emotion(user_message \o ai_response),
     sentiment_score |-> quick_sentiment_score(ai_response),
     mode |-> IF mode # <<>> THEN mode[1] ELSE detect_mode(user_message)]

log_after_chat(user_id, user_message, ai_response, mode) ==
    /\ CanEnter
    /\ chat' = [pc |-> "save", calls |-> chat.calls + 1, via |-> "log",
                user_id |-> user_id, message |-> user_message,
                ai_response |-> ai_response, mode |-> mode,
                meta |-> LogMeta(user_message, ai_response, mode)]
    /\ UNCHANGED <<snow_conn, conversations, analytics, profiles>>

LogReturn(saved, logged, raised) ==
    [pc |-> "done", calls |-> chat.calls, via |-> "log", user_id |-> chat.user_id,
     message |-> chat.message, ai_response |-> chat.ai_response, mode |-> chat.mode,
     saved |-> saved, logged |-> logged, raised |-> raised,
     ret |-> IF raised THEN <<>> ELSE <<chat.meta>>]
LogAwaitsAnalytic(saved) ==
    [pc |-> "analytic", calls |-> chat.calls, via |-> "log", user_id |-> chat.user_id,
     message |-> chat.message, ai_response |-> chat.ai_response, mode |-> chat.mode,
     meta |-> chat.meta, saved |-> saved]

\* Mutant of save_conversation_replied: a failed insert ends log_after_chat.
save_conversation_reraises(ok) ==
    /\ chat.pc = "save"
    /\ conversations' = IF ok THEN conversations + 1 ELSE conversations
    /\ chat' = IF ~ok THEN LogReturn(FALSE, "skipped", TRUE)
               ELSE IF snow_conn THEN LogAwaitsAnalytic(ok)
               ELSE LogReturn(ok, "skipped", FALSE)
    /\ UNCHANGED <<snow_conn, analytics, profiles>>

\* save_conversation after insert_one; then log_after_chat up to the
\* analytics insert, or to its return when Snowflake is not connected.
save_conversation_replied(ok) ==
    /\ chat.pc = "save"
    /\ conversations' = IF ok THEN conversations + 1 ELSE conversations
    /\ chat' = IF snow_conn THEN LogAwaitsAnalytic(ok)
               ELSE LogReturn(ok, "skipped", FALSE)
    /\ UNCHANGED <<snow_conn, analytics, profiles>>

\* log_conversation_analytic after the insert thread; log_after_chat returns.
log_conversation_analytic_replied(ok) ==
    /\ chat.pc = "analytic"
    /\ analytics' = IF ok THEN analytics + 1 ELSE analytics
    /\ snow_conn' = IF ok THEN snow_conn ELSE FALSE
    /\ chat' = LogReturn(chat.saved, IF ok THEN "ok" ELSE "fail", FALSE)
    /\ UNCHANGED <<conversations, profiles>>

\* SnowflakeService._setup_tables, started at construction, has connected or not.
\* The users collection holds what earlier requests and other writers left.
InitChat == InitVeo /\ scan = ScanIdle
            /\ chat = ChatIdle /\ snow_conn \in BOOLEAN
            /\ conversations = 0 /\ analytics = 0
            /\ profiles \in {[u \in Users |-> d] : d \in {None} \cup {Some(x) : x \in ProfileDocs}}

NextChat ==
    \/ /\ \E user_id \in Users, message \in ChatMessages \cup {<<>>} : orchestrate(user_id, message)
       /\ UNCHANGED <<veo_vars, scan>>
    \/ /\ \E user_id \in Users, message \in ChatMessages : chat_route(user_id, message)
       /\ UNCHANGED <<veo_vars, scan>>
    \/ /\ memory_agent_started
       /\ UNCHANGED <<veo_vars, scan>>
    \/ /\ pattern_agent_started
       /\ UNCHANGED <<veo_vars, scan>>
    \/ /\ safety_agent_ran
       /\ UNCHANGED <<veo_vars, scan>>
    \/ /\ get_user_profile_started
       /\ UNCHANGED <<veo_vars, scan>>
    \/ /\ \E reply \in Replies : get_conversation_history_replied(reply)
       /\ UNCHANGED <<veo_vars, scan>>
    \/ /\ \E reply \in Replies : analyze_emotional_trends_replied(reply)
       /\ UNCHANGED <<veo_vars, scan>>
    \/ /\ \E ok \in BOOLEAN : get_user_profile_replied(ok)
       /\ UNCHANGED <<veo_vars, scan>>
    \/ /\ orchestrate_returned
       /\ UNCHANGED <<veo_vars, scan>>
    \/ /\ \E outcome \in {"stub", "text", "blank", "failed"} : chat_orchestrated(outcome)
       /\ UNCHANGED <<veo_vars, scan>>
    \/ /\ \E user_id \in Users, user_message \in ChatMessages \cup {<<>>},
             ai_response \in {<<>>, <<"proud", "of", "you">>,
                              <<"sad", "and", "tired", "but", "happy">>}, mode \in {<<>>, <<"decision">>} :
             log_after_chat(user_id, user_message, ai_response, mode)
       /\ UNCHANGED <<veo_vars, scan>>
    \/ /\ \E ok \in BOOLEAN : save_conversation_replied(ok)
       /\ UNCHANGED <<veo_vars, scan>>
    \/ /\ \E ok \in BOOLEAN : log_conversation_analytic_replied(ok)
       /\ UNCHANGED <<veo_vars, scan>>

SpecChat == InitChat /\ [][NextChat]_vars

\* ------------------------------------------- routes.py /generate-avatar
\* MongoDBService.update_user_profile: $set of avatar_reference_urls, upsert.
update_user_profile(users, user_id, refs) ==
    [users EXCEPT ![user_id] =
        Some(IF IsNone(@) THEN [voice_id |-> None, avatar_reference_urls |-> refs]
             ELSE [The(@) EXCEPT !.avatar_reference_urls = refs])]

\* generate_avatar after create_aged_avatar returned result (routes.py:326-330):
\* the users collection once the handler has answered.
generate_avatar_saved(result, users) ==
    IF "gcs_uris" \in DOMAIN result /\ Len(result.gcs_uris) > 0
    THEN update_user_profile(users, result.user_id, result.gcs_uris)
    ELSE users

\* The rest of the handler, run in the step in which create_aged_avatar returns.
generate_avatar_continued ==
    /\ profiles' = IF lastRet' # lastRet /\ lastRet'.call = "create" /\ ~lastRet'.raised
                   THEN generate_avatar_saved(jobs'[lastRet'.job_id], profiles)
                   ELSE profiles
    /\ UNCHANGED <<scan, chat, snow_conn, conversations, analytics>>

InitAvatar ==
    /\ InitVeo /\ scan = ScanIdle
    /\ chat = ChatIdle /\ snow_conn = FALSE /\ conversations = 0 /\ analytics = 0
    /\ profiles \in {[u \in Users |-> d] : d \in {None} \cup {Some(x) : x \in ProfileDocs}}

NextAvatar ==
    \/ /\ \E in \in CreateInputs : create_aged_avatar(in.user_id, in.face_captures)
       /\ generate_avatar_continued
    \/ /\ \E c \in InFlight, i \in 1..MaxRefs, ok \in BOOLEAN : upload_blob_done(c, i, ok)
       /\ generate_avatar_continued
    \/ /\ \E c \in InFlight : create_job_uploaded(c)
       /\ generate_avatar_continued
    \/ /\ \E c \in InFlight, reply \in SubmitReplies : create_job_submitted(c, reply)
       /\ generate_avatar_continued

SpecAvatar == InitAvatar /\ [][NextAvatar]_vars

\* ================================================================ claims
TerminalStates == {"completed", "failed"}
StatusPcs == {"s_fetch", "s_fetched", "s_sign"}

\* The call c returns in this step (with a job or with an exception).
Returns(c) ==
    \/ \E text \in PollErrors : get_job_status_poll_failed(c, text)
    \/ get_job_status_fetched(c) /\ BagCardinality(call') < BagCardinality(call)
    \/ \E ok \in BOOLEAN : get_job_status_signed(c, ok)

\* C1: once a job's stored state is Completed or Failed, every get_job_status
\* call that begins afterwards, a call whose poll fails included, leaves the
\* stored state at that terminal state when it returns.
C1_TerminalStateStays ==
    [][\A c \in InFlight :
          (c.pc \in StatusPcs /\ c.entry \in TerminalStates /\ Returns(c))
              => jobs'[c.job_id].status = c.entry]_vars

\* C2: when the last of the overlapping get_job_status calls on a job returns
\* and the remote operation is running or has finished with a locator, the
\* stored record is wholly the Processing outcome or wholly the Completed one.
ProcessingOutcome(job) ==
    job.status = "processing" /\ IsNone(job.video_url) /\ job.progress < DoneProgress
CompletedOutcome(job) ==
    job.status = "completed" /\ ~IsNone(job.video_url) /\ job.progress = DoneProgress
HasLocator(op) ==
    \/ op = OpNotDone
    \/ \E resp \in Responses : op = OpDoneOk(resp) /\ ~IsNone(ExtractVideoUri(op).uri)
C2_NoMixedRecord ==
    [][\A c \in InFlight :
          (/\ c.pc \in StatusPcs
           /\ get_job_status_fetched(c) \/ get_job_status_signed(c, TRUE)
           /\ \A d \in BagToSet(call') : d.pc \in StatusPcs => d.job_id # c.job_id
           /\ HasLocator(remote[c.op_name])
           /\ jobs'[c.job_id].status \in {"processing", "completed"})
              => \/ ProcessingOutcome(jobs'[c.job_id])
                 \/ CompletedOutcome(jobs'[c.job_id])]_vars

\* C3: a _create_job call with an empty reference list stores and returns a
\* failed job without a remote handle, and reaches neither the upload nor the
\* submission: it returns without suspending.
C3_EmptyRefsFailFast ==
    [][\A u \in Users :
          create_job(u, <<>>, FixedDuration)
              => LET jid == JobId(u, nextId + 1) IN
                 /\ jid \in DOMAIN jobs'
                 /\ jobs'[jid].status = "failed"
                 /\ IsNone(jobs'[jid].operation)
                 /\ lastRet' = CreateReturn(jid, 0, 0)
                 /\ call' = call
                 /\ remote' = remote]_vars
C3_Witness ==
    \E jid \in DOMAIN jobs :
        /\ jobs[jid].error = Some(ErrNoImages)
        /\ lastRet = CreateReturn(jid, 0, 0)

\* C4: a failed poll on a job that was Submitted or Processing when the call
\* began leaves the stored state as it was.
C4_PollFailureKeepsState ==
    [][\A c \in InFlight, text \in PollErrors :
          (c.pc \in StatusPcs /\ c.entry \in {"submitted", "processing"}
           /\ get_job_status_poll_failed(c, text))
              => jobs'[c.job_id].status = c.entry]_vars

\* C5: the first poll of a freshly submitted job that finds the operation
\* running leaves the job Processing with a progress of at least 10.
C5_FirstPollFloor ==
    [][\A c \in InFlight :
          (/\ c.pc = "s_fetched"
           /\ jobs[c.job_id].status = "submitted"
           /\ ~Truthy(Get(c.op, "done"))
           /\ get_job_status_fetched(c))
              => /\ jobs'[c.job_id].status = "processing"
                 /\ jobs'[c.job_id].progress >= FloorProgress]_vars

\* C6: every poll that finds the operation running leaves the job Processing
\* and its progress no lower than before.
C6_RunningPollsMonotone ==
    [][\A c \in InFlight :
          (/\ c.pc = "s_fetched"
           /\ ~Truthy(Get(c.op, "done"))
           /\ get_job_status_fetched(c))
              => /\ jobs'[c.job_id].status = "processing"
                 /\ jobs'[c.job_id].progress >= jobs[c.job_id].progress]_vars
C6_Witness ==
    \E c \in InFlight :
        /\ c.pc = "s_fetched"
        /\ c.op = OpNotDone
        /\ c.entry = "processing"
        /\ jobs[c.job_id].status = "processing"

\* C7: every stored job's status is one of submitted, processing, completed,
\* failed.
C7_StatusInEnum ==
    \A jid \in DOMAIN jobs :
        jobs[jid].status \in {"submitted", "processing", "completed", "failed"}

\* C8: a stored job has a video_url only when its status is completed.
C8_UrlOnlyWhenCompleted ==
    \A jid \in DOMAIN jobs :
        ~IsNone(jobs[jid].video_url) => jobs[jid].status = "completed"

\* C9: a failed poll keeps the job in the registry with the handle it was
\* submitted with, and the next get_job_status call on it polls that handle.
C9_PollFailureKeepsHandle ==
    [][/\ \A c \in InFlight, text \in PollErrors :
             (c.pc \in StatusPcs /\ get_job_status_poll_failed(c, text))
                 => /\ c.job_id \in DOMAIN jobs'
                    /\ jobs'[c.job_id].operation = Some(c.op_name)
                    /\ jobs'[c.job_id].operation = jobs[c.job_id].operation
                    /\ JobId(jobs'[c.job_id].user_id, c.op_name) = c.job_id
       /\ \A jid \in DOMAIN jobs :
             (jobs[jid].status = "error" /\ get_job_status(jid))
                 => \E d \in BagToSet(call') :
                        /\ d.pc = "s_fetch"
                        /\ d.job_id = jid
                        /\ JobId(jobs[jid].user_id, d.op_name) = jid
                        /\ CopiesIn(d, call') = CopiesIn(d, call) + 1]_vars
C9_Witness ==
    \E c \in InFlight :
        /\ c.pc = "s_fetch"
        /\ c.entry = "error"
        /\ jobs[c.job_id].status = "error"
        /\ jobs[c.job_id].operation = Some(c.op_name)

C11_ProgressByState ==
    \A jid \in DOMAIN jobs :
        /\ jobs[jid].progress \in 0..DoneProgress
        /\ jobs[jid].status = "failed" => jobs[jid].progress = 0
        /\ jobs[jid].status = "completed" => jobs[jid].progress = DoneProgress
C11_Witness ==
    /\ \E jid \in DOMAIN jobs :
           jobs[jid].status = "completed" /\ jobs[jid].progress = DoneProgress
    /\ \E jid \in DOMAIN jobs :
           jobs[jid].status = "failed" /\ jobs[jid].progress = 0

\* C12: the job_id, user_id, created_at and operation of a stored job are the
\* same after every step, the steps of get_job_status calls whose poll succeeded
\* or failed included, and the job stays in the registry.
C12_IdentityFieldsFrozen ==
    [][\A jid \in DOMAIN jobs :
          /\ jid \in DOMAIN jobs'
          /\ jobs'[jid].job_id = jobs[jid].job_id
          /\ jobs'[jid].job_id = jid
          /\ jobs'[jid].user_id = jobs[jid].user_id
          /\ jobs'[jid].created_at = jobs[jid].created_at
          /\ jobs'[jid].operation = jobs[jid].operation]_vars
C12_Witness ==
    \E jid \in DOMAIN jobs :
        /\ jobs[jid].status = "completed"
        /\ jobs[jid].updated_at > jobs[jid].created_at
        /\ lastRet = StatusReturn(jid)
        /\ npolls >= 2

\* C13: every stored job whose status is submitted, processing or completed
\* has an operation, and every stored job without an operation is failed and
\* has an error (a str, which is empty when the exception had no message).
C13_HandleIffSubmitted ==
    \A jid \in DOMAIN jobs :
        /\ jobs[jid].status \in {"submitted", "processing", "completed"}
               => ~IsNone(jobs[jid].operation)
        /\ IsNone(jobs[jid].operation)
               => jobs[jid].status = "failed" /\ ~IsNone(jobs[jid].error)
C13_Witness ==
    /\ \E jid \in DOMAIN jobs :
           IsNone(jobs[jid].operation) /\ jobs[jid].error = Some(ErrHttpStatus)
    /\ \E jid \in DOMAIN jobs :
           jobs[jid].status = "processing" /\ ~IsNone(jobs[jid].operation)

\* C14: no remote call is repeated. A submission is outstanding only for a
\* _create_job call that just began or just finished its uploads, and the
\* reply to it ends the call; a poll is outstanding only for a get_job_status
\* call a caller just made, and its failure or its answer consumes it without
\* another poll being sent; and the stored jobs change only in a step of a
\* _create_job or get_job_status call.
Pending(b, pcs) ==
    BagCardinality([d \in {x \in BagToSet(b) : x.pc \in pcs} |-> b[d]])
PollPcs == {"s_fetch", "s_fetched"}
C14_NoRetry ==
    [][/\ Pending(call', {"c_submit"}) > Pending(call, {"c_submit"})
             => /\ Pending(call', {"c_submit"}) = Pending(call, {"c_submit"}) + 1
                /\ \/ nextId' = nextId + 1
                   \/ Pending(call', {"c_upload"}) = Pending(call, {"c_upload"}) - 1
       /\ \A c \in InFlight, reply \in SubmitReplies :
             (c.pc = "c_submit" /\ create_job_submitted(c, reply))
                 => /\ Pending(call', {"c_submit"}) = Pending(call, {"c_submit"}) - 1
                    /\ Pending(call', {"c_upload"}) = Pending(call, {"c_upload"})
                    /\ lastRet'.submits = 1
       /\ Pending(call', PollPcs) > Pending(call, PollPcs)
             => /\ Pending(call', PollPcs) = Pending(call, PollPcs) + 1
                /\ npolls' = npolls + 1
       /\ \A c \in InFlight :
             (/\ c.pc \in PollPcs
              /\ \/ \E text \in PollErrors : get_job_status_poll_failed(c, text)
                 \/ get_job_status_fetched(c))
                 => Pending(call', PollPcs) = Pending(call, PollPcs) - 1
       /\ jobs' # jobs
             => \/ nextId' = nextId + 1
                \/ \E c \in InFlight :
                       /\ CopiesIn(c, call') < CopiesIn(c, call)
                       /\ c.pc \in {"c_upload", "c_submit", "s_fetched", "s_sign"}
                              \/ (c.pc = "s_fetch" /\ lastRet' = StatusReturn(c.job_id))]_vars
C14_Witness ==
    /\ call = EmptyBag
    /\ npolls = 2
    /\ \E jid \in DOMAIN jobs :
           /\ lastRet = StatusReturn(jid)
           /\ jobs[jid].status = "error"
           /\ jobs[jid].error = Some(ErrTimeout)

\* C15: whatever duration the caller asks for, a _create_job call with a
\* non-empty reference list sends durationSeconds = 8 (every call waiting for
\* its uploads will send 8, every request body built holds 8), and when the
\* submission succeeds the job stored and returned is submitted with progress
\* 0, the operation name of the reply, no video_url and no error.
C15_FixedDurationSubmitted ==
    [][/\ \A in \in CreateInputs, d \in Durations :
             (Len(in.face_captures) > 0
              /\ generate_avatar_video(in.user_id, in.face_captures, d))
                 => \A c \in BagToSet(call') :
                        /\ c.pc = "c_upload" => c.duration_seconds = FixedDuration
                        /\ c.pc = "c_submit" => c.body.durationSeconds = FixedDuration
       /\ \A c \in InFlight :
             (c.pc = "c_upload" /\ create_job_uploaded(c))
                 => \A e \in BagToSet(call') :
                        e.pc = "c_submit" => e.body.durationSeconds = FixedDuration
       /\ \A c \in InFlight, reply \in SubmitReplies :
             (/\ c.pc = "c_submit"
              /\ call_predict_long_running(reply, c.num).ok
              /\ create_job_submitted(c, reply))
                 => /\ c.body.durationSeconds = FixedDuration
                    /\ lastRet' = CreateReturn(c.job_id, c.uploads, 1)
                    /\ jobs'[c.job_id].status = "submitted"
                    /\ jobs'[c.job_id].progress = 0
                    /\ jobs'[c.job_id].operation = Some(c.num)
                    /\ IsNone(jobs'[c.job_id].video_url)
                    /\ IsNone(jobs'[c.job_id].error)]_vars
C15_Witness ==
    \E jid \in DOMAIN jobs :
        /\ lastRet = CreateReturn(jid, 2, 1)
        /\ jobs[jid].status = "submitted"
        /\ jobs[jid].progress = 0
        /\ ~IsNone(jobs[jid].operation)

\* C16: within one _create_job call the submission is sent only when every
\* upload the call started has finished (each with its URI, which the request
\* then carries in the order of the captures); the uploads finish in any order.
C16_SubmitAfterUploads ==
    [][\A c \in InFlight :
          (c.pc = "c_upload" /\ create_job_uploaded(c))
              => \A e \in BagToSet(call') :
                     (e.pc = "c_submit" /\ e.job_id = c.job_id)
                         => /\ \A i \in 1..Len(c.tasks) : c.tasks[i].st = "ok"
                            /\ e.uploads = Len(c.tasks)
                            /\ Len(e.body.referenceImages) = Len(c.tasks)
                            /\ \A i \in 1..Len(c.tasks) :
                                   e.body.referenceImages[i].gcsUri = c.tasks[i].uri]_vars
C16_Witness ==
    /\ \E c \in InFlight : c.pc = "c_submit" /\ c.uploads = 2
    /\ \E c \in InFlight :
           c.pc = "c_upload" /\ c.tasks[1].st = "run" /\ c.tasks[2].st = "ok"

\* C17: a _create_job call given raw image data starts at most 3 uploads; one
\* given stored gs:// references starts none and goes straight to the
\* submission; in both cases the request carries at most 3 references.
AllStable(caps) == Len(caps) > 0 /\ \A i \in 1..Len(caps) : StartsWithGs(caps[i])
AllRaw(caps) == Len(caps) > 0 /\ \A i \in 1..Len(caps) : ~StartsWithGs(caps[i])
C17_AtMostThreeRefs ==
    [][/\ \A in \in CreateInputs :
             create_job(in.user_id, in.face_captures, FixedDuration)
                 => \A c \in BagToSet(call') :
                        c.job_id = JobId(in.user_id, nextId + 1)
                            => /\ AllRaw(in.face_captures)
                                      => c.pc = "c_upload" /\ Len(c.tasks) <= MaxRefs
                               /\ AllStable(in.face_captures)
                                      => /\ c.pc = "c_submit"
                                         /\ c.uploads = 0
                                         /\ Len(c.body.referenceImages) <= MaxRefs
       /\ \A c \in InFlight :
             (c.pc = "c_upload" /\ create_job_uploaded(c))
                 => \A e \in BagToSet(call') :
                        e.pc = "c_submit"
                            => Len(e.body.referenceImages) <= MaxRefs /\ e.uploads <= MaxRefs
       /\ lastRet'.call = "create" => lastRet'.uploads <= MaxRefs]_vars
C17_Witness ==
    /\ \E c \in InFlight :
           /\ c.pc = "c_submit"
           /\ c.uploads = 0
           /\ Len(c.body.referenceImages) = MaxRefs
           /\ c.body.referenceImages[MaxRefs].gcsUri = GsRef("2")
    /\ \E c \in InFlight : c.pc = "c_upload" /\ Len(c.tasks) = 2

\* C18: get_job_status on a job id that is not in the registry raises
\* ValueError, which get_video_status answers with 404; no poll is sent and
\* no stored job and no remote operation changes.
C18_UnknownIdNotFound ==
    [][\A jid \in {UnknownId} :
          (jid \notin DOMAIN jobs /\ get_job_status(jid))
              => /\ lastRet' = StatusRaise(jid, "ValueError")
                 /\ get_video_status(lastRet', jobs') = 404
                 /\ call' = call
                 /\ jobs' = jobs
                 /\ remote' = remote]_vars
C18_Witness ==
    /\ lastRet = StatusRaise(UnknownId, "ValueError")
    /\ jobs # EmptyMap
    /\ call # EmptyBag

\* C19: get_job_status on a job without operation returns the stored job,
\* sends no poll and changes no field of any job, at the first call and at
\* every later one.
C19_NoHandleReturnedAsIs ==
    [][\A jid \in DOMAIN jobs :
          (IsNone(jobs[jid].operation) /\ get_job_status(jid))
              => /\ lastRet' = StatusReturn(jid)
                 /\ get_video_status(lastRet', jobs') = 200
                 /\ call' = call
                 /\ jobs' = jobs
                 /\ remote' = remote]_vars
C19_Witness ==
    \E jid \in DOMAIN jobs :
        /\ IsNone(jobs[jid].operation)
        /\ lastRet = StatusReturn(jid)
        /\ npolls = 2
        /\ clock > jobs[jid].updated_at

\* C20: an assignment a caller makes to a job that _create_job or
\* get_job_status returned to it leaves the registry as it was.
C20_ReturnedJobsAreCopies ==
    [][\A progress \in CallerValues :
          caller_mutates_returned_job(progress) => jobs' = jobs]_vars

\* C21: list_user_jobs(user_id) returns the stored jobs whose user_id is the
\* argument and no other (none for a user without jobs), sends nothing to
\* the remote API, starts no coroutine and changes no stored job.
C21_ListIsOwnersJobs ==
    [][\A u \in Users :
          list_user_jobs(u)
              => /\ lastRet'.call = "list"
                 /\ ~lastRet'.raised
                 /\ lastRet'.job_ids \subseteq DOMAIN jobs
                 /\ \A jid \in DOMAIN jobs :
                        jid \in lastRet'.job_ids <=> jobs[jid].user_id = u
                 /\ jobs' = jobs
                 /\ call' = call
                 /\ remote' = remote]_vars
C21_Witness ==
    /\ lastRet.call = "list"
    /\ lastRet.job_ids # {}
    /\ \E jid \in DOMAIN jobs : jid \notin lastRet.job_ids
    /\ \A jid \in lastRet.job_ids : jobs[jid].user_id = lastRet.user_id

\* C30: the step in which a _create_job call stores its job, failed or
\* submitted, adds one record under a key the registry did not hold, leaves
\* every other record as it was, and the job returned is the one stored under
\* that key and is among the jobs listed for its user.
CreateStores(jid) ==
    /\ lastRet'.call = "create"
    /\ lastRet'.job_id = jid
    /\ \/ nextId' = nextId + 1 /\ call' = call
       \/ /\ nextId' = nextId
          /\ BagCardinality(call') < BagCardinality(call)
          /\ \E c \in InFlight :
                 /\ c.pc \in {"c_upload", "c_submit"}
                 /\ c.job_id = jid
                 /\ CopiesIn(c, call') < CopiesIn(c, call)
C30_CreateAddsOneRecord ==
    [][\A jid \in DOMAIN jobs' :
          CreateStores(jid)
              => /\ jid \notin DOMAIN jobs
                 /\ DOMAIN jobs' = (DOMAIN jobs) \cup {jid}
                 /\ \A k \in DOMAIN jobs : jobs'[k] = jobs[k]
                 /\ jobs'[jid].job_id = jid
                 /\ jid \in ListUserJobs(jobs', jobs'[jid].user_id)]_vars

\* C28: when a get_job_status call that extracted a gs:// locator from the
\* done operation ends, the job it marked completed has as video_url the
\* signed HTTPS URL: not the gs:// locator, and not nothing.
C28_GsLocatorIsSigned ==
    [][\A c \in InFlight, ok \in BOOLEAN :
          (c.pc = "s_sign" /\ StartsWithGs(c.video_uri) /\ get_job_status_signed(c, ok))
              => /\ jobs'[c.job_id].status = "completed"
                 /\ ~IsNone(jobs'[c.job_id].video_url)
                 /\ StartsWithHttp(The(jobs'[c.job_id].video_url))
                 /\ ~StartsWithGs(The(jobs'[c.job_id].video_url))]_vars

\* Every str held by a JSON value, as a map value or a list element, at any depth.
RECURSIVE NestedStrings(_)
NestedStrings(v) ==
    CASE v.t = "str" -> {v.s}
      [] v.t = "list" -> UNION {NestedStrings(v.items[i]) : i \in 1..Len(v.items)}
      [] v.t = "map" -> UNION {NestedStrings(v.kv[i].v) : i \in 1..Len(v.kv)}
      [] OTHER -> {}
EndsWithVideoExt(str) == Len(str) > 0 /\ str[Len(str)] \in VideoExts

\* C26: for a done response without the well-known video fields, a locator
\* is extracted (and video_url set) whenever some str nested in the response,
\* as a map value or as a list element at any depth, starts with gs:// or an
\* HTTP scheme and names a media extension.
C26_FallbackFindsAnyNested ==
    scan.st = "located"
        => ((\E str \in NestedStrings(scan.data) : IsVideoLocator(str))
                => ~scan.raised /\ ~IsNone(scan.uri) /\ ~IsNone(scan.video_url))

\* C27: what _find_any_video_url returns is a str held by the response that
\* starts with gs:// or an HTTP scheme and ends in .mp4, .mov, .webm or .mkv,
\* and it returns None when the response holds no such str.
EndsAsVideoLocator(str) ==
    (StartsWithGs(str) \/ StartsWithHttp(str)) /\ EndsWithVideoExt(str)
C27_ScanReturnsVideoLocator ==
    scan.st \in {"scanned", "located"}
        => /\ ~IsNone(scan.found)
                  => /\ The(scan.found) \in NestedStrings(scan.data)
                     /\ EndsAsVideoLocator(The(scan.found))
           /\ (\A str \in NestedStrings(scan.data) : ~EndsAsVideoLocator(str))
                  => IsNone(scan.found)

OrchestrateDone == chat.pc = "done" /\ chat.via \in {"orchestrate", "chat"}
FetchesFailed(tasks) ==
    tasks.mem.how = "fail" /\ tasks.trends.how = "fail" /\ tasks.profile.how = "fail"
Modes == {"therapist", "decision", "brainstorm", "casual"}

\* C22: orchestrate never raises, and when the history fetch, the trend fetch
\* and the profile fetch all failed the context it returns has empty
\* memories and trends, no voice id, no avatar references, and still carries
\* the safety verdict and a suggested mode.
C22_ContextDespiteFailures ==
    OrchestrateDone =>
        /\ ~chat.orchestrated.raised
        /\ FetchesFailed(chat.tasks) =>
              LET ctx == chat.orchestrated.ctx[1] IN
              /\ ctx.memories = <<>>
              /\ ctx.trends = <<>>
              /\ ctx.voice_id = <<>>
              /\ ctx.avatar_reference_urls = <<>>
              /\ ctx.safety.crisis \in BOOLEAN
              /\ ctx.safety.note \in {"clear", "Crisis language detected."}
              /\ ctx.suggested_mode \in Modes

C22_Witness ==
    /\ OrchestrateDone /\ chat.via = "orchestrate"
    /\ FetchesFailed(chat.tasks)
    /\ ~chat.orchestrated.raised
    /\ chat.orchestrated.ctx[1].memories = <<>>
    /\ chat.orchestrated.ctx[1].safety.crisis

\* C23: all four tasks exist, not yet run, when orchestrate begins to wait;
\* orchestrate goes on only when each of the four has finished; a task created
\* later may finish while tasks created earlier are still waiting.
C23_GatherWaitsForAllFour ==
    [][/\ (chat.pc # "gather" /\ chat'.pc = "gather") =>
             \A i \in 1..4 : chat'.tasks[TaskNames[i]] = Task("pending", "", <<>>)
       /\ (chat.pc = "gather" /\ chat'.pc = "done") =>
             \A i \in 1..4 : chat.tasks[TaskNames[i]].st = "done"]_vars

C23_Witness ==
    /\ chat.pc = "gather"
    /\ chat.tasks.profile.st = "done"
    /\ chat.tasks.mem.st = "io"
    /\ chat.tasks.trends.st = "io"

C25_SafetyVerdictExact ==
    OrchestrateDone =>
        /\ ~chat.orchestrated.raised
        /\ chat.orchestrated.ctx[1].safety.crisis
              <=> (\E k \in CRISIS_KEYWORDS : In(k, Lowered(chat.message)))

C25_Witness ==
    /\ OrchestrateDone
    /\ chat.message = <<"I", "Want", "To", "DIE">>
    /\ chat.tasks.mem.how = "fail" /\ chat.tasks.profile.how = "fail"
    /\ chat.orchestrated.ctx[1].safety.crisis

\* C29: every finished /chat request answered with a reply text.
C29_ChatAlwaysReplies ==
    (chat.pc = "done" /\ chat.via = "chat") =>
        chat.status_code = 200 /\ chat.text # <<>>

Signing(registry, flight, jid) ==
    /\ registry[jid].status = "completed"
    /\ registry[jid].progress = DoneProgress
    /\ IsNone(registry[jid].video_url)
    /\ \E c \in BagToSet(flight) : c.pc = "s_sign" /\ c.job_id = jid

\* C31: no list_user_jobs call returns a job that another get_job_status call
\* has marked completed with progress 100 and not yet given its video_url.
C31_CompletionAtomic ==
    [][(npolls' = npolls + 1 /\ lastRet'.call = "list") =>
          \A jid \in lastRet'.job_ids : ~Signing(jobs', call', jid)]_vars

\* C32: when get_signed_url raises out of get_job_status, the stored job is as
\* it was when the call began: its status is the one the call found, and it is
\* not completed with progress 100 and no video_url.
C32_SignFailureLeavesJob ==
    [][\A c \in BagToSet(call) :
          (c.pc = "s_sign" /\ call' = Resume(c)
             /\ lastRet' = StatusRaise(c.job_id, "SigningError")) =>
          /\ jobs'[c.job_id].status = c.entry
          /\ ~(jobs'[c.job_id].status = "completed"
                 /\ jobs'[c.job_id].progress = DoneProgress
                 /\ IsNone(jobs'[c.job_id].video_url))]_vars

\* C33: a get_job_status call that returns a completed job returns it with a
\* video_url, whatever the shape of the operation's response.
C33_CompletedHasVideoUrl ==
    [][\A c \in BagToSet(call) :
          (c.pc \in {"s_fetched", "s_sign"} /\ call' = Resume(c)
             /\ lastRet' = StatusReturn(c.job_id)
             /\ jobs'[c.job_id].status = "completed") =>
          ~IsNone(jobs'[c.job_id].video_url)]_vars

\* C34: a stored job whose status is completed has error None.
C34_CompletedHasNoError ==
    \A jid \in DOMAIN jobs : jobs[jid].status = "completed" => IsNone(jobs[jid].error)

\* C35: when a /generate-avatar request ends with its job submitted after
\* uploads, the user's profile holds the uploaded URIs as avatar_reference_urls.
C35_AvatarRefsSaved ==
    [][\A c \in BagToSet(call) :
          (c.pc = "c_submit" /\ call' = Resume(c) /\ c.uploads > 0
             /\ c.job_id \in DOMAIN jobs' /\ jobs'[c.job_id].status = "submitted") =>
          /\ ~IsNone(profiles'[c.user_id])
          /\ The(profiles'[c.user_id]).avatar_reference_urls
                = [i \in 1..Len(c.body.referenceImages) |-> c.body.referenceImages[i].gcsUri]]_vars

\* C36: a log_after_chat call that finds Snowflake not connected goes on to
\* the analytics insert all the same.
C36_LogReconnects ==
    [][(chat.pc = "save" /\ chat'.pc # "save" /\ ~snow_conn) => chat'.pc = "analytic"]_vars

UploadFailed(c) == c.pc = "c_upload" /\ \E i \in 1..Len(c.tasks) : c.tasks[i].st = "fail"

\* C37: when a reference upload of a _create_job call has failed, the call
\* leaves its upload stage by returning, without raising, the job it stores as
\* failed with operation None; it sends no predictLongRunning request.
C37_UploadFailureStoresFailed ==
    [][\A c \in BagToSet(call) :
          (UploadFailed(c)
             /\ \A d \in BagToSet(call') : d.pc = "c_upload" => d.job_id # c.job_id) =>
          /\ \A d \in BagToSet(call') : d.job_id # c.job_id
          /\ lastRet' = CreateReturn(c.job_id, Len(c.tasks), 0)
          /\ c.job_id \in DOMAIN jobs'
          /\ jobs'[c.job_id].status = "failed"
          /\ IsNone(jobs'[c.job_id].operation)
          /\ ~IsNone(jobs'[c.job_id].error)
          /\ remote' = remote]_vars

C37_Witness ==
    /\ lastRet.call = "create" /\ ~lastRet.raised
    /\ lastRet.uploads > 0 /\ lastRet.submits = 0
    /\ lastRet.job_id \in DOMAIN jobs
    /\ jobs[lastRet.job_id].status = "failed"
    /\ IsNone(jobs[lastRet.job_id].operation)
    /\ remote = EmptyMap

\* C38: every reference in a predictLongRunning request about to be sent is a
\* gs:// reference.
C38_SubmittedRefsStable ==
    \A c \in BagToSet(call) :
        c.pc = "c_submit" =>
            \A i \in 1..Len(c.body.referenceImages) :
                StartsWithGs(c.body.referenceImages[i].gcsUri)

\* C39: a step changes a job already stored only if it is a step of a
\* get_job_status call on that job; no stored job is removed or replaced by a
\* _create_job call.
C39_OnlyOwnJobChanges ==
    [][\A jid \in DOMAIN jobs :
          /\ jid \in DOMAIN jobs'
          /\ jobs'[jid] # jobs[jid] =>
                \E c \in BagToSet(call) :
                    /\ c.pc \in {"s_fetch", "s_fetched", "s_sign"}
                    /\ c.job_id = jid
                    /\ CopiesIn(c, call') < CopiesIn(c, call)]_vars

\* C40: under SpecLive every job stored with an operation name is at some
\* later time completed or failed, whatever polls failed in between.
C40_SubmittedEndsTerminal ==
    \A jid \in LiveJobs :
        (jid \in DOMAIN jobs /\ ~IsNone(jobs[jid].operation))
            ~> (jid \in DOMAIN jobs /\ jobs[jid].status \in TerminalStates)

C40_Witness ==
    \E jid \in DOMAIN jobs :
        /\ jobs[jid].status = "completed"
        /\ ~IsNone(jobs[jid].error)
        /\ ~IsNone(jobs[jid].video_url)

====
